---- MODULE Spec2Model ----
(***************************************************************************)
(* Model of terminal.accessibility.contribution.ts: the accessible-buffer  *)
(* terminal contribution, the accessibility-help action and the four       *)
(* accessible-buffer commands, together with the host services they call   *)
(* (terminal service, contribution lifecycle, context keys).               *)
(***************************************************************************)
EXTENDS Integers, Sequences, FiniteSets, TLC

\* ------------------------------------------------------------- bounds
MaxTerminals == 2
MaxLayouts == 2

Terminals == 1..MaxTerminals
None == 0
NotRevealed == None - 1

\* ------------------------------------------------------------- commands
FocusAccessibleBuffer == "FocusAccessibleBuffer"
NavigateAccessibleBuffer == "NavigateAccessibleBuffer"
AccessibleBufferGoToNextCommand == "AccessibleBufferGoToNextCommand"
AccessibleBufferGoToPreviousCommand == "AccessibleBufferGoToPreviousCommand"
AccessibilityHelp == "AccessibilityHelp"

BufferCommands ==
    {FocusAccessibleBuffer, NavigateAccessibleBuffer,
     AccessibleBufferGoToNextCommand, AccessibleBufferGoToPreviousCommand}

Commands == BufferCommands \cup {AccessibilityHelp}

NavigationType == {"Next", "Previous"}

\* ------------------------------------------------------------- context keys
ContextKeys ==
    {"accessibilityModeEnabled", "terminalTabFocusMode", "terminalFocus",
     "accessibleBufferFocus", "processSupported", "terminalHasBeenCreated"}

VARIABLES
    term,                   \* host: instance lifecycle, "absent" | "alive" | "disposed"
    hasContribution,        \* host: instance.getContribution(ID) is not null
    xterm,                  \* host: instance.xterm is defined
    active,                 \* host: the active terminal instance, None when there is none
    accessibleBufferWidget, \* contribution field _accessibleBufferWidget (0 = undefined, else widget id)
    toDispose,              \* DisposableStore: the widgets registered with add()
    isDisposed,             \* DisposableStore: _isDisposed
    widgetDisposed,         \* the widgets whose dispose() has run
    layouts,                \* number of layout() calls made on the contribution
    constructed,            \* number of AccessibleBufferWidget instances created
    pc,                     \* handler position: "idle" | "awaitGet" | "awaitReveal" | "awaitDelegate"
    cmd,                    \* the command an invocation runs ("none" before the first)
    instance,               \* the handler's local `instance`
    revealedAt,             \* what this invocation's revealActiveTerminal call revealed
    quickPick,              \* the handler's local `quickPick`
    calls,                  \* the calls this invocation made on widgets / accessible view
    ctx,                    \* context key values
    evaluated               \* last precondition / when-clause evaluation of the host

hostVars == <<term, hasContribution, xterm, active>>
widgetVars == <<accessibleBufferWidget, toDispose, isDisposed, widgetDisposed, layouts, constructed>>
handlerVars == <<pc, cmd, instance, revealedAt, quickPick, calls>>
keyVars == <<ctx, evaluated>>
vars == <<hostVars, widgetVars, handlerVars, keyVars>>

\* A call on a collaborator: target terminal, widget id, method, argument.
Call(t, w, m, arg) == [t |-> t, w |-> w, m |-> m, arg |-> arg]

\* ------------------------------------------------------------- initial state
Init ==
    /\ term = [t \in Terminals |-> "absent"]
    /\ hasContribution = [t \in Terminals |-> FALSE]
    /\ xterm = [t \in Terminals |-> FALSE]
    /\ active = None
    /\ accessibleBufferWidget = [t \in Terminals |-> None]
    /\ toDispose = [t \in Terminals |-> {}]
    /\ isDisposed = [t \in Terminals |-> FALSE]
    /\ widgetDisposed = [t \in Terminals |-> {}]
    /\ layouts = [t \in Terminals |-> 0]
    /\ constructed = [t \in Terminals |-> 0]
    /\ pc = "idle"
    /\ cmd = "none"
    /\ instance = None
    /\ revealedAt = NotRevealed
    /\ quickPick = None
    /\ calls = <<>>
    /\ ctx = [k \in ContextKeys |-> FALSE]
    /\ evaluated = [cmd |-> "none", precondition |-> FALSE, when |-> FALSE]

\* ------------------------------------------------------------- host services
\* Instance ids are handed out in increasing order.
NextTerminal == CHOOSE t \in Terminals : term[t] = "absent" /\ \A u \in Terminals : u < t => term[u] # "absent"

CanCreate == \E t \in Terminals : term[t] = "absent"

\* The host creates an instance and makes it the active one; the instance may
\* or may not carry the accessible-buffer contribution.
CreateInstance(t) ==
    /\ term' = [term EXCEPT ![t] = "alive"]
    /\ \E c \in BOOLEAN : hasContribution' = [hasContribution EXCEPT ![t] = c]
    /\ active' = t

\* ITerminalService.getActiveOrCreateInstance(): the active instance when there
\* is one, else a newly created instance, else nothing.
GetActiveOrCreateInstance(res) ==
    \/ /\ active # None
       /\ res = active
       /\ UNCHANGED <<term, hasContribution, active>>
    \/ /\ active = None
       /\ CanCreate
       /\ res = NextTerminal
       /\ CreateInstance(res)
    \/ /\ active = None
       /\ res = None
       /\ UNCHANGED <<term, hasContribution, active>>

\* ITerminalService.revealActiveTerminal(): makes the instance that is active
\* at the time of the call visible; nothing happens without an active instance.
RevealActiveTerminal == active

\* The user opens a new terminal.
HostCreateTerminal ==
    /\ CanCreate
    /\ CreateInstance(NextTerminal)
    /\ UNCHANGED <<xterm, widgetVars, handlerVars, keyVars>>

\* The user switches the active terminal.
HostSetActive(t) ==
    /\ term[t] = "alive"
    /\ active # t
    /\ active' = t
    /\ UNCHANGED <<term, hasContribution, xterm, widgetVars, handlerVars, keyVars>>

\* The instance's xterm.js terminal is attached.
HostAttachXterm(t) ==
    /\ term[t] = "alive"
    /\ ~xterm[t]
    /\ xterm' = [xterm EXCEPT ![t] = TRUE]
    /\ UNCHANGED <<term, hasContribution, active, widgetVars, handlerVars, keyVars>>

\* ------------------------------------------------------------- AccessibleBufferContribution
\* DisposableStore.add(o): registers o unless the store is already disposed.
StoreAdd(t, w) ==
    toDispose' = [toDispose EXCEPT ![t] = IF isDisposed[t] THEN @ ELSE @ \cup {w}]

\* DisposableStore.dispose(): disposes everything registered, once.
StoreDispose(t) ==
    IF isDisposed[t]
    THEN UNCHANGED <<toDispose, isDisposed, widgetDisposed>>
    ELSE /\ isDisposed' = [isDisposed EXCEPT ![t] = TRUE]
         /\ widgetDisposed' = [widgetDisposed EXCEPT ![t] = @ \cup toDispose[t]]
         /\ toDispose' = [toDispose EXCEPT ![t] = {}]

\* AccessibleBufferContribution.get(instance)
Get(t) == IF hasContribution[t] THEN t ELSE None

\* layout(xterm) without the guard: a widget per call.
LayoutAlways(t) ==
    /\ accessibleBufferWidget' = [accessibleBufferWidget EXCEPT ![t] = constructed[t] + 1]
    /\ constructed' = [constructed EXCEPT ![t] = @ + 1]
    /\ StoreAdd(t, constructed[t] + 1)

\* layout(xterm): constructs the widget when the field is unset.
LayoutBody(t) ==
    IF accessibleBufferWidget[t] = None
    THEN /\ accessibleBufferWidget' = [accessibleBufferWidget EXCEPT ![t] = constructed[t] + 1]
         /\ constructed' = [constructed EXCEPT ![t] = @ + 1]
         /\ StoreAdd(t, constructed[t] + 1)
    ELSE UNCHANGED <<accessibleBufferWidget, constructed, toDispose>>

\* The host lays out the terminal and calls layout(xterm) on the contribution.
Layout(t) ==
    /\ term[t] # "absent"
    /\ hasContribution[t]
    /\ xterm[t]
    /\ layouts[t] < MaxLayouts
    /\ layouts' = [layouts EXCEPT ![t] = @ + 1]
    /\ LayoutBody(t)
    /\ UNCHANGED <<isDisposed, widgetDisposed, hostVars, handlerVars, keyVars>>

\* The host disposes the instance, and with it the instance's contributions.
Dispose(t) ==
    /\ term[t] = "alive"
    /\ term' = [term EXCEPT ![t] = "disposed"]
    /\ IF active = t
       THEN \E a \in {None} \cup {u \in Terminals : u # t /\ term[u] = "alive"} : active' = a
       ELSE UNCHANGED active
    /\ IF hasContribution[t] THEN StoreDispose(t) ELSE UNCHANGED <<toDispose, isDisposed, widgetDisposed>>
    /\ UNCHANGED <<hasContribution, xterm, accessibleBufferWidget, layouts, constructed, handlerVars, keyVars>>

contributionVars == <<accessibleBufferWidget, constructed, toDispose>>

\* show() that builds the widget on demand instead of doing nothing.
ShowEager(t) ==
    /\ calls' = Append(calls, Call(t, IF accessibleBufferWidget[t] = None THEN constructed[t] + 1 ELSE accessibleBufferWidget[t], "show", "-"))
    /\ LayoutBody(t)

\* show(): await this._accessibleBufferWidget?.show()
Show(t) ==
    /\ calls' = IF accessibleBufferWidget[t] = None THEN calls
                ELSE Append(calls, Call(t, accessibleBufferWidget[t], "show", "-"))
    /\ UNCHANGED contributionVars

\* What the widget's createQuickPick() resolves to: a quick-pick (1), or
\* undefined when the widget has nothing to offer.
QuickPicks == {None, None + 1}

\* createCommandQuickPick(): return this._accessibleBufferWidget?.createQuickPick()
CreateCommandQuickPick(t) ==
    /\ IF accessibleBufferWidget[t] = None
       THEN /\ quickPick' = None
            /\ UNCHANGED calls
       ELSE /\ calls' = Append(calls, Call(t, accessibleBufferWidget[t], "createQuickPick", "-"))
            /\ \E q \in QuickPicks : quickPick' = q
    /\ UNCHANGED contributionVars

\* navigateToCommand(type): return this._accessibleBufferWidget?.navigateToCommand(type)
NavigateToCommand(t, type) ==
    /\ calls' = IF accessibleBufferWidget[t] = None THEN calls
                ELSE Append(calls, Call(t, accessibleBufferWidget[t], "navigateToCommand", type))
    /\ UNCHANGED contributionVars

\* ------------------------------------------------------------- command handlers
\* One handler invocation is followed from its call to its return.  What any
\* other invocation does to the host while this one is suspended at an await
\* (creating a terminal, the user switching or closing terminals) is the host
\* actions above.

\* const instance = await c.service.getActiveOrCreateInstance();
\* (the first statement of every handler, and of the help action)
Start(c) ==
    /\ pc = "idle"
    /\ \E res \in {None} \cup Terminals :
          /\ GetActiveOrCreateInstance(res)
          /\ instance' = res
    /\ pc' = "awaitGet"
    /\ cmd' = c
    /\ revealedAt' = NotRevealed
    /\ quickPick' = None
    /\ calls' = <<>>
    /\ UNCHANGED <<xterm, widgetVars, keyVars>>

\* A handler that goes on without revealing the terminal.
RevealSkipped ==
    /\ pc = "awaitGet"
    /\ pc' = "awaitReveal"
    /\ UNCHANGED <<hostVars, widgetVars, cmd, instance, revealedAt, quickPick, calls, keyVars>>

\* await c.service.revealActiveTerminal();
\* (the second statement of every handler, and of the help action)
Reveal ==
    /\ pc = "awaitGet"
    /\ revealedAt' = RevealActiveTerminal
    /\ pc' = "awaitReveal"
    /\ UNCHANGED <<hostVars, widgetVars, cmd, instance, quickPick, calls, keyVars>>

\* if (!instance) { return; }
ReturnNoInstance ==
    /\ instance = None
    /\ pc' = "idle"
    /\ UNCHANGED <<contributionVars, quickPick, calls>>

\* AccessibleBufferContribution.get(instance)?. with no contribution: undefined
NoContribution ==
    /\ instance # None
    /\ Get(instance) = None
    /\ pc' = "awaitDelegate"
    /\ UNCHANGED <<contributionVars, quickPick, calls>>

\* FocusAccessibleBuffer: await AccessibleBufferContribution.get(instance)?.show()
FocusDelegate ==
    /\ pc = "awaitReveal"
    /\ cmd = FocusAccessibleBuffer
    /\ \/ ReturnNoInstance
       \/ NoContribution
       \/ /\ instance # None
          /\ Get(instance) # None
          /\ Show(Get(instance))
          /\ pc' = "awaitDelegate"
          /\ UNCHANGED quickPick
    /\ UNCHANGED <<hostVars, isDisposed, widgetDisposed, layouts, cmd, instance, revealedAt, keyVars>>

\* NavigateAccessibleBuffer:
\* const quickPick = await AccessibleBufferContribution.get(instance)?.createCommandQuickPick()
NavigateDelegate ==
    /\ pc = "awaitReveal"
    /\ cmd = NavigateAccessibleBuffer
    /\ \/ ReturnNoInstance
       \/ NoContribution
       \/ /\ instance # None
          /\ Get(instance) # None
          /\ CreateCommandQuickPick(Get(instance))
          /\ pc' = "awaitDelegate"
    /\ UNCHANGED <<hostVars, isDisposed, widgetDisposed, layouts, cmd, instance, revealedAt, keyVars>>

\* AccessibleBufferGoToNextCommand:
\* await AccessibleBufferContribution.get(instance)?.navigateToCommand(NavigationType.Next)
NextDelegate ==
    /\ pc = "awaitReveal"
    /\ cmd = AccessibleBufferGoToNextCommand
    /\ \/ ReturnNoInstance
       \/ NoContribution
       \/ /\ instance # None
          /\ Get(instance) # None
          /\ NavigateToCommand(Get(instance), "Next")
          /\ pc' = "awaitDelegate"
          /\ UNCHANGED quickPick
    /\ UNCHANGED <<hostVars, isDisposed, widgetDisposed, layouts, cmd, instance, revealedAt, keyVars>>

\* Go-to-previous wired to the Next direction.
PreviousDelegateWrongDirection ==
    /\ pc = "awaitReveal"
    /\ cmd = AccessibleBufferGoToPreviousCommand
    /\ \/ ReturnNoInstance
       \/ NoContribution
       \/ /\ instance # None
          /\ Get(instance) # None
          /\ NavigateToCommand(Get(instance), "Next")
          /\ pc' = "awaitDelegate"
          /\ UNCHANGED quickPick
    /\ UNCHANGED <<hostVars, isDisposed, widgetDisposed, layouts, cmd, instance, revealedAt, keyVars>>

\* AccessibleBufferGoToPreviousCommand:
\* await AccessibleBufferContribution.get(instance)?.navigateToCommand(NavigationType.Previous)
PreviousDelegate ==
    /\ pc = "awaitReveal"
    /\ cmd = AccessibleBufferGoToPreviousCommand
    /\ \/ ReturnNoInstance
       \/ NoContribution
       \/ /\ instance # None
          /\ Get(instance) # None
          /\ NavigateToCommand(Get(instance), "Previous")
          /\ pc' = "awaitDelegate"
          /\ UNCHANGED quickPick
    /\ UNCHANGED <<hostVars, isDisposed, widgetDisposed, layouts, cmd, instance, revealedAt, keyVars>>

\* The continuation after the awaited delegation: quickPick?.show() for
\* NavigateAccessibleBuffer, plain return for the other commands.
Finish ==
    /\ pc = "awaitDelegate"
    /\ calls' = IF cmd = NavigateAccessibleBuffer /\ quickPick # None
                THEN Append(calls, Call(instance, quickPick, "quickPick.show", "-"))
                ELSE calls
    /\ pc' = "idle"
    /\ UNCHANGED <<hostVars, widgetVars, cmd, instance, revealedAt, quickPick, keyVars>>

\* The help action showing the accessible view without the xterm check and
\* without a provider.
HelpShowUnchecked ==
    /\ pc = "awaitReveal"
    /\ cmd = AccessibilityHelp
    /\ calls' = <<Call(instance, None, "accessibleView.show", "terminal")>>
    /\ pc' = "idle"
    /\ UNCHANGED <<hostVars, widgetVars, cmd, instance, revealedAt, quickPick, keyVars>>

\* TerminalAccessibilityHelpContribution: const terminal = instance?.xterm;
\* if (!terminal) return; registerProvider(...); show('terminal')
HelpShow ==
    /\ pc = "awaitReveal"
    /\ cmd = AccessibilityHelp
    /\ calls' = IF instance = None \/ ~xterm[instance] THEN calls
                ELSE <<Call(instance, None, "accessibleView.registerProvider", "-"),
                       Call(instance, None, "accessibleView.show", "terminal")>>
    /\ pc' = "idle"
    /\ UNCHANGED <<hostVars, widgetVars, cmd, instance, revealedAt, quickPick, keyVars>>

\* ------------------------------------------------------------- preconditions and keybindings
\* ContextKeyExpr.or / and / negate are the boolean connectives over the
\* values of the context keys.
Key(k) == ctx[k]

\* FocusAccessibleBuffer precondition
FocusPrecondition == Key("processSupported") \/ Key("terminalHasBeenCreated")

\* The Shift+Tab when-clause without its negated third operand.
FocusWhenWithoutNegate == Key("accessibilityModeEnabled") /\ Key("terminalTabFocusMode")

\* FocusAccessibleBuffer keybinding (Shift+Tab) when-clause
FocusWhen ==
    /\ Key("accessibilityModeEnabled")
    /\ Key("terminalTabFocusMode")
    /\ ~Key("accessibleBufferFocus")

\* NavigateAccessibleBuffer precondition and when-clause
NavigatePrecondition == Key("processSupported") \/ Key("terminalHasBeenCreated")
NavigateWhen == Key("accessibleBufferFocus")

\* AccessibleBufferGoToNextCommand precondition and when-clause
NextPrecondition ==
    Key("processSupported") \/ Key("terminalHasBeenCreated") \/ Key("accessibleBufferFocus")
NextWhen == Key("accessibleBufferFocus")

\* AccessibleBufferGoToPreviousCommand precondition and when-clause
PreviousPrecondition ==
    (Key("processSupported") \/ Key("terminalHasBeenCreated")) /\ Key("accessibleBufferFocus")
PreviousWhen == Key("accessibleBufferFocus")

\* The help action's implementation condition (TerminalContextKeys.focus)
HelpWhen == Key("terminalFocus")

Precondition(c) ==
    CASE c = FocusAccessibleBuffer -> FocusPrecondition
      [] c = NavigateAccessibleBuffer -> NavigatePrecondition
      [] c = AccessibleBufferGoToNextCommand -> NextPrecondition
      [] c = AccessibleBufferGoToPreviousCommand -> PreviousPrecondition
      [] OTHER -> TRUE

When(c) ==
    CASE c = FocusAccessibleBuffer -> FocusWhen
      [] c = NavigateAccessibleBuffer -> NavigateWhen
      [] c = AccessibleBufferGoToNextCommand -> NextWhen
      [] c = AccessibleBufferGoToPreviousCommand -> PreviousWhen
      [] OTHER -> HelpWhen

NotEvaluated == [cmd |-> "none", precondition |-> FALSE, when |-> FALSE]

\* The host changes a context key; evaluations made before are stale.
SetContextKey(k) ==
    /\ ctx' = [ctx EXCEPT ![k] = ~@]
    /\ evaluated' = NotEvaluated
    /\ UNCHANGED <<hostVars, widgetVars, handlerVars>>

\* The host evaluates a command's precondition and its keybinding's when-clause
\* against the current context.
Evaluate(c) ==
    /\ evaluated' = [cmd |-> c, precondition |-> Precondition(c), when |-> When(c)]
    /\ evaluated' # evaluated
    /\ UNCHANGED <<ctx, hostVars, widgetVars, handlerVars>>

\* ------------------------------------------------------------- specification
Next ==
    \/ HostCreateTerminal
    \/ \E t \in Terminals : HostSetActive(t)
    \/ \E t \in Terminals : HostAttachXterm(t)
    \/ \E t \in Terminals : Layout(t)
    \/ \E t \in Terminals : Dispose(t)
    \/ \E c \in Commands : Start(c)
    \/ Reveal
    \/ FocusDelegate
    \/ NavigateDelegate
    \/ NextDelegate
    \/ PreviousDelegate
    \/ Finish
    \/ HelpShow

Spec == Init /\ [][Next]_vars

\* The context-key machine: the host changes the context keys, starting with
\* none set, and evaluates the commands' conditions against them.
NextKeys ==
    \/ \E k \in ContextKeys : SetContextKey(k)
    \/ \E c \in Commands : Evaluate(c)

SpecKeys == Init /\ [][NextKeys]_vars

\* ------------------------------------------------------------- properties
HandlerStep == pc' # pc

WidgetMethods == {"show", "createQuickPick", "navigateToCommand"}

\* The widget is absent for instance t: no contribution, or no layout() yet.
WidgetAbsent(t) == ~hasContribution[t] \/ accessibleBufferWidget[t] = None

\* The one widget call a command makes when it delegates to instance t.
OwnCall(c, t) ==
    CASE c = FocusAccessibleBuffer -> Call(t, accessibleBufferWidget[t], "show", "-")
      [] c = NavigateAccessibleBuffer -> Call(t, accessibleBufferWidget[t], "createQuickPick", "-")
      [] c = AccessibleBufferGoToNextCommand -> Call(t, accessibleBufferWidget[t], "navigateToCommand", "Next")
      [] c = AccessibleBufferGoToPreviousCommand -> Call(t, accessibleBufferWidget[t], "navigateToCommand", "Previous")

\* C1 (as claimed): a step of a command handler whose getActiveOrCreateInstance
\* resolved to no instance reveals no terminal, calls nothing on a widget, opens
\* no quick-pick and leaves host and widget state as they were.
C1_NoOpWithoutInstance ==
    [][(HandlerStep /\ cmd' \in BufferCommands /\ instance' = None)
        => /\ revealedAt' \in {NotRevealed, None}
           /\ calls' = <<>>
           /\ quickPick' = None
           /\ UNCHANGED <<hostVars, widgetVars>>]_vars

\* C2: a command handler has delegated to the contribution (it is past the
\* delegation, or has made a call) only when its revealActiveTerminal call of
\* the same invocation has completed.
C2_RevealBeforeDelegate ==
    (cmd \in BufferCommands /\ (pc = "awaitDelegate" \/ calls # <<>>))
        => revealedAt # NotRevealed

C2_Witness ==
    /\ cmd = NavigateAccessibleBuffer
    /\ pc = "awaitDelegate"
    /\ calls # <<>>
    /\ revealedAt = instance

\* C3: per terminal instance the widget is constructed at most once: nothing
\* before the first layout call, exactly one widget after it, and the same
\* widget after every later layout call.
C3_WidgetConstructedOnce ==
    \A t \in Terminals :
        /\ constructed[t] = (IF layouts[t] = 0 THEN 0 ELSE 1)
        /\ accessibleBufferWidget[t] = (IF layouts[t] = 0 THEN None ELSE 1)

C3_Witness ==
    \E t \in Terminals :
        /\ layouts[t] >= 2
        /\ constructed[t] = 1
        /\ calls # <<>>
        /\ calls[1].t = t

\* C4: with a resolved instance whose widget is constructed, the delegation
\* step of each command makes exactly its own widget call on that instance's
\* widget, and the continuation adds only the show of the quick-pick that
\* createQuickPick returned (NavigateAccessibleBuffer) and nothing otherwise.
C4_EachCommandItsOwnAction ==
    [][/\ (/\ HandlerStep
           /\ pc = "awaitReveal"
           /\ cmd \in BufferCommands
           /\ instance # None
           /\ ~WidgetAbsent(instance))
          => calls' = <<OwnCall(cmd, instance)>>
       /\ (HandlerStep /\ pc = "awaitDelegate" /\ cmd \in BufferCommands)
          => calls' = IF cmd = NavigateAccessibleBuffer /\ quickPick # None
                      THEN Append(calls, Call(instance, quickPick, "quickPick.show", "-"))
                      ELSE calls]_vars

C4_Witness ==
    /\ pc = "idle"
    /\ cmd = NavigateAccessibleBuffer
    /\ Len(calls) = 2
    /\ calls[1].m = "createQuickPick"
    /\ calls[2].m = "quickPick.show"

\* C5 (as claimed): the instance a command handler forwards to is the instance
\* it resolved and the instance its revealActiveTerminal call made visible.
C5_ForwardsToRevealedInstance ==
    (cmd \in BufferCommands /\ calls # <<>>)
        => (calls[1].t = instance /\ revealedAt = instance)

\* C6: every step of the help action leaves the accessible view untouched,
\* except the step after the reveal with a resolved instance that has an xterm
\* terminal: it registers a provider for that instance and then shows
\* 'terminal'.
C6_HelpRegistersThenShows ==
    [][(HandlerStep /\ cmd' = AccessibilityHelp)
        => /\ calls' = IF pc = "awaitReveal" /\ instance # None /\ xterm[instance]
                       THEN <<Call(instance, None, "accessibleView.registerProvider", "-"),
                              Call(instance, None, "accessibleView.show", "terminal")>>
                       ELSE <<>>
           /\ calls' # <<>> => revealedAt' # NotRevealed]_vars

C6_Witness ==
    /\ pc = "idle"
    /\ cmd = AccessibilityHelp
    /\ Len(calls) = 2
    /\ calls[1].m = "accessibleView.registerProvider"
    /\ calls[1].t = instance
    /\ calls[2].m = "accessibleView.show"

\* C7 (as claimed): the Shift+Tab when-clause is true exactly when
\* accessibility mode is enabled and the terminal focus key of the binding is set.
C7_WhenIffAccessibilityAndFocus ==
    evaluated.cmd = FocusAccessibleBuffer
        => (evaluated.when <=> (ctx["accessibilityModeEnabled"] /\ ctx["terminalTabFocusMode"]))

\* C7 (amended): the Shift+Tab when-clause is true exactly when accessibility
\* mode is enabled, the terminal tab-focus key is set and the accessible buffer
\* does not have focus.
C7_WhenExact ==
    evaluated.cmd = FocusAccessibleBuffer
        => (evaluated.when <=> (/\ ctx["accessibilityModeEnabled"]
                                /\ ctx["terminalTabFocusMode"]
                                /\ ~ctx["accessibleBufferFocus"]))

C7_Witness ==
    /\ evaluated.cmd = FocusAccessibleBuffer
    /\ evaluated.when
    /\ ctx["accessibilityModeEnabled"]
    /\ ~ctx["terminalFocus"]

\* C8: delegating to an instance whose widget is absent (no contribution, or no
\* layout yet) makes no call, yields no quick-pick, constructs nothing and
\* changes no contribution state, and the handler goes on to its continuation,
\* which again calls nothing and returns.
C8_AbsentWidgetDoesNothing ==
    [][/\ (/\ HandlerStep
           /\ pc = "awaitReveal"
           /\ cmd \in BufferCommands
           /\ instance # None
           /\ WidgetAbsent(instance))
          => /\ calls' = <<>>
             /\ quickPick' = None
             /\ pc' = "awaitDelegate"
             /\ UNCHANGED <<hostVars, widgetVars>>
       /\ (HandlerStep /\ pc = "awaitDelegate" /\ cmd \in BufferCommands /\ calls = <<>>)
          => /\ calls' = <<>>
             /\ pc' = "idle"
             /\ UNCHANGED <<hostVars, widgetVars>>]_vars

C8_Witness ==
    /\ pc = "idle"
    /\ cmd = NavigateAccessibleBuffer
    /\ instance # None
    /\ hasContribution[instance]
    /\ layouts[instance] = 0
    /\ calls = <<>>

\* C9 (as claimed): the Next and the Previous command have the same
\* precondition in every context.
C9_SamePrecondition == NextPrecondition = PreviousPrecondition

\* C10 (as claimed): disposing the contribution disposes the widget layout
\* constructed, and no widget method is invoked on a disposed widget.
C10_NoUseAfterDispose ==
    [][/\ \A t \in Terminals :
            (isDisposed'[t] /\ ~isDisposed[t] /\ accessibleBufferWidget[t] # None)
                => accessibleBufferWidget[t] \in widgetDisposed'[t]
       /\ (cmd \in BufferCommands /\ Len(calls') > Len(calls)
             /\ calls'[Len(calls')].m \in WidgetMethods)
          => calls'[Len(calls')].w \notin widgetDisposed[calls'[Len(calls')].t]]_vars

====
